---------------------------- MODULE Spec2Model ----------------------------
(***************************************************************************)
(* Model of plaso's Mac OS X appfirewall.log parser                        *)
(* (src/plaso/parsers/mac_appfirewall.py, class MacAppFirewallParser).     *)
(*                                                                         *)
(* Text is modelled as the parser sees it: raw byte strings, i.e.          *)
(* sequences of byte values 0..255.  Decoded text is a sequence of code    *)
(* points.  A timestamp is kept in whole seconds since 1970-01-01 00:00:00 *)
(* UTC; the program's value is that number of seconds times one million    *)
(* (micro seconds), which has the same sign, the same zero and the same    *)
(* equalities.                                                             *)
(***************************************************************************)
EXTENDS Integers, Sequences, FiniteSets

VARIABLES
  year_use,            \* self._year_use (0 = not resolved)
  last_month,          \* self._last_month (0 stands for None: both are falsy)
  previous_structure,  \* self.previous_structure (NoneValue = None)
  nlines,              \* number of ParseRecord calls made so far
  aborted,             \* an exception left ParseRecord: the file's parse is over
  op,                  \* the last operation called
  key,                 \* its key argument, when it was ParseRecord
  structure,           \* its structure argument, when it was ParseRecord
  line,                \* its line argument, when it was VerifyStructure
  outcome,             \* how the last call ended: "returned" or an exception
  verified,            \* its return value, when it was VerifyStructure
  produced,            \* events handed to ProduceEvent by the last call
  consulted,           \* year sources the last call read
  line_month,          \* month of the last line _ParseLogLine processed (0: none)
  last_accepted,       \* the last 'logline' structure an event was produced for
  expected_year,       \* resolved year + month decreases between adjacent lines
  all_valid            \* every line processed so far had a timestamp

vars == <<year_use, last_month, previous_structure, nlines, aborted, op, key,
          structure, line, outcome, verified, produced, consulted, line_month,
          last_accepted, expected_year, all_valid>>

-----------------------------------------------------------------------------
(* Bounds of the model.                                                    *)

MaxLines == 3

-----------------------------------------------------------------------------
(* Byte strings used by the inputs.                                        *)

NoneValue == [none |-> TRUE]

Jan == <<74, 97, 110>>
Nov == <<78, 111, 118>>
Dec == <<68, 101, 99>>

Host1 == <<72, 111, 115, 116, 45, 49, 46, 108, 111, 99, 97, 108>>
Host2 == <<72, 111, 115, 116, 45, 50>>
Agent112 == <<115, 111, 99, 107, 101, 116, 102, 105, 108, 116, 101, 114, 102,
              119, 91, 49, 49, 50, 93>>
Agent87 == <<115, 111, 99, 107, 101, 116, 102, 105, 108, 116, 101, 114, 102,
             119, 91, 56, 55, 93>>
Info == <<73, 110, 102, 111>>
Error == <<69, 114, 114, 111, 114>>
SpDropbox == <<32, 68, 114, 111, 112, 98, 111, 120>>
SpLogging == <<32, 76, 111, 103, 103, 105, 110, 103>>
SpSkypeSp == <<32, 83, 107, 121, 112, 101, 32>>
AllowAction == <<65, 108, 108, 111, 119, 32, 40, 105, 110, 58, 48, 32, 111,
                 117, 116, 58, 50, 41>>
\* 'creating /var/log/appfirewall.log'
CreatingAction == <<99, 114, 101, 97, 116, 105, 110, 103, 32, 47, 118, 97, 114,
                    47, 108, 111, 103, 47, 97, 112, 112, 102, 105, 114, 101,
                    119, 97, 108, 108, 46, 108, 111, 103>>
\* 'A', an invalid byte, e-acute in UTF-8, a truncated two byte sequence.
BadUtf8Action == <<65, 255, 195, 169, 195>>
\* ' last message repeated 1 time '
RepeatedText == <<32, 108, 97, 115, 116, 32, 109, 101, 115, 115, 97, 103, 101,
                  32, 114, 101, 112, 101, 97, 116, 101, 100, 32, 49, 32, 116,
                  105, 109, 101, 32>>

-----------------------------------------------------------------------------
(* Calendar arithmetic (proleptic Gregorian calendar, as datetime).        *)

IsLeap(y) == (y % 4 = 0 /\ y % 100 # 0) \/ y % 400 = 0

DaysInMonth(y, m) ==
  IF m = 2 THEN (IF IsLeap(y) THEN 29 ELSE 28)
  ELSE IF m \in {4, 6, 9, 11} THEN 30 ELSE 31

\* Days from 1970-01-01 to the civil date y-m-d.
DaysFromCivil(y, m, d) ==
  LET yy  == IF m <= 2 THEN y - 1 ELSE y
      era == yy \div 400
      yoe == yy - era * 400
      mp  == IF m > 2 THEN m - 3 ELSE m + 9
      doy == (153 * mp + 2) \div 5 + d - 1
      doe == yoe * 365 + yoe \div 4 - yoe \div 100 + doy
  IN era * 146097 + doe - 719468

\* The civil year of the day that lies `days` days after 1970-01-01.
YearOfDays(days) ==
  LET z   == days + 719468
      era == z \div 146097
      doe == z - era * 146097
      yoe == (doe - doe \div 1460 + doe \div 36524 - doe \div 146096) \div 365
      doy == doe - (365 * yoe + yoe \div 4 - yoe \div 100)
      mp  == (5 * doy + 2) \div 153
      m   == IF mp < 10 THEN mp + 3 ELSE mp - 9
  IN yoe + era * 400 + (IF m <= 2 THEN 1 ELSE 0)

\* datetime.datetime(year, month, day, hour, minute, second) raises ValueError
\* unless this holds.
ValidDateTime(year, month, day, hour, minute, second) ==
  /\ year \in 1..9999
  /\ month \in 1..12
  /\ day >= 1 /\ day <= DaysInMonth(year, month)
  /\ hour \in 0..23 /\ minute \in 0..59 /\ second \in 0..59

\* timelib.Timestamp.FromTimeParts: the instant of the UTC date and time, or
\* the failure value for parts that form no date.  Failure is <<>>, success
\* is <<t>>.
FromTimeParts(year, month, day, hour, minute, second) ==
  IF ValidDateTime(year, month, day, hour, minute, second)
  THEN <<DaysFromCivil(year, month, day) * 86400
         + hour * 3600 + minute * 60 + second>>
  ELSE <<>>

-----------------------------------------------------------------------------
(* Byte strings: str.lower, str.strip and str.decode('utf-8', errors).     *)

LowerByte(b) == IF b \in 65..90 THEN b + 32 ELSE b

Lower(s) == [i \in 1..Len(s) |-> LowerByte(s[i])]

IsSpace(b) == b \in {9, 10, 11, 12, 13, 32}

RECURSIVE LStrip(_)
LStrip(s) == IF s # <<>> /\ IsSpace(Head(s)) THEN LStrip(Tail(s)) ELSE s

RECURSIVE RStrip(_)
RStrip(s) ==
  IF s # <<>> /\ IsSpace(s[Len(s)]) THEN RStrip(SubSeq(s, 1, Len(s) - 1)) ELSE s

Strip(s) == RStrip(LStrip(s))

IsCont(b) == b \in 128..191

\* Length of the UTF-8 sequence a lead byte announces; 0: no lead byte.
Utf8CodeLength(b) ==
  IF b < 128 THEN 1
  ELSE IF b \in 194..223 THEN 2
  ELSE IF b \in 224..239 THEN 3
  ELSE IF b \in 240..244 THEN 4
  ELSE 0

\* Number of continuation bytes directly after position i.
RECURSIVE ContRun(_, _)
ContRun(s, i) ==
  IF i + 1 <= Len(s) /\ IsCont(s[i + 1]) THEN 1 + ContRun(s, i + 1) ELSE 0

\* One step of the decoder at position i: the number of bytes it takes and
\* the code point they encode (cp = <<>>: the bytes are an invalid sequence).
Utf8Step(s, i) ==
  LET b0  == s[i]
      n   == Utf8CodeLength(b0)
      rem == Len(s) - i + 1
  IN IF n = 1 THEN [n |-> 1, cp |-> <<b0>>]
     ELSE IF n = 0 THEN [n |-> 1, cp |-> <<>>]
     ELSE IF rem < n THEN [n |-> 1 + ContRun(s, i), cp |-> <<>>]
     ELSE IF n = 2 THEN
       IF ~IsCont(s[i + 1]) THEN [n |-> 1, cp |-> <<>>]
       ELSE [n |-> 2, cp |-> <<(b0 - 192) * 64 + (s[i + 1] - 128)>>]
     ELSE IF n = 3 THEN
       IF ~IsCont(s[i + 1]) \/ ~IsCont(s[i + 2]) \/ (b0 = 224 /\ s[i + 1] < 160)
       THEN [n |-> IF IsCont(s[i + 1]) THEN 2 ELSE 1, cp |-> <<>>]
       ELSE [n |-> 3, cp |-> <<(b0 - 224) * 4096 + (s[i + 1] - 128) * 64
                                + (s[i + 2] - 128)>>]
     ELSE
       IF \/ ~IsCont(s[i + 1]) \/ ~IsCont(s[i + 2]) \/ ~IsCont(s[i + 3])
          \/ (b0 = 240 /\ s[i + 1] < 144) \/ (b0 = 244 /\ s[i + 1] > 143)
       THEN [n |-> IF ~IsCont(s[i + 1]) THEN 1
                   ELSE IF ~IsCont(s[i + 2]) THEN 2 ELSE 3,
             cp |-> <<>>]
       ELSE [n |-> 4, cp |-> <<(b0 - 240) * 262144 + (s[i + 1] - 128) * 4096
                                + (s[i + 2] - 128) * 64 + (s[i + 3] - 128)>>]

\* The bytes from position i on are valid UTF-8.
RECURSIVE Utf8ValidFrom(_, _)
Utf8ValidFrom(s, i) ==
  IF i > Len(s) THEN TRUE
  ELSE LET st == Utf8Step(s, i)
       IN st.cp # <<>> /\ Utf8ValidFrom(s, i + st.n)

\* The code points decoded from position i on, invalid sequences left out.
RECURSIVE Utf8IgnoreFrom(_, _)
Utf8IgnoreFrom(s, i) ==
  IF i > Len(s) THEN <<>>
  ELSE LET st == Utf8Step(s, i)
       IN st.cp \o Utf8IgnoreFrom(s, i + st.n)

\* s.decode('utf-8', errors): raised = TRUE stands for UnicodeDecodeError.
Utf8Decode(s, errors) ==
  IF errors = "strict" /\ ~Utf8ValidFrom(s, 1)
  THEN [raised |-> TRUE, text |-> <<>>]
  ELSE [raised |-> FALSE, text |-> Utf8IgnoreFrom(s, 1)]

-----------------------------------------------------------------------------
(* The year of the log file.                                               *)

\* timelib.MONTH_DICT.get(name): 0 stands for None.
MonthDictGet(name) ==
  CASE name = <<106, 97, 110>> -> 1
    [] name = <<102, 101, 98>> -> 2
    [] name = <<109, 97, 114>> -> 3
    [] name = <<97, 112, 114>> -> 4
    [] name = <<109, 97, 121>> -> 5
    [] name = <<106, 117, 110>> -> 6
    [] name = <<106, 117, 108>> -> 7
    [] name = <<97, 117, 103>> -> 8
    [] name = <<115, 101, 112>> -> 9
    [] name = <<111, 99, 116>> -> 10
    [] name = <<110, 111, 118>> -> 11
    [] name = <<100, 101, 99>> -> 12
    [] OTHER -> 0

\* A file time is a POSIX time, written as whole days and seconds of the day.
ZeroTime == [days |-> 0, secs |-> 0]

\* getattr(stat, name, 0)
GetAttrTime(stat, name) == IF name \in DOMAIN stat THEN stat[name] ELSE ZeroTime

\* datetime.datetime.fromtimestamp(time, timezone).year; <<>> stands for the
\* ValueError of a time outside the years 1..9999.  A timezone is its offset
\* from UTC in seconds.
FromTimestampYear(time, timezone) ==
  LET local == time.secs + timezone
      year  == YearOfDays(time.days + local \div 86400)
  IN IF year \in 1..9999 THEN <<year>> ELSE <<>>

\* Mutant of GetYear: the two file times are tried in the other order.
GetYear_CtimeFirst(stat, timezone, now) ==
  LET ctime == GetAttrTime(stat, "ctime")
      time  == IF ctime = ZeroTime THEN GetAttrTime(stat, "crtime") ELSE ctime
  IN IF time = ZeroTime THEN now
     ELSE LET timestamp == FromTimestampYear(time, timezone)
          IN IF timestamp = <<>> THEN now ELSE timestamp[1]

\* _GetYear(stat, timezone); now is what timelib.GetCurrentYear() returns.
GetYear(stat, timezone, now) ==
  LET crtime == GetAttrTime(stat, "crtime")
      time   == IF crtime = ZeroTime THEN GetAttrTime(stat, "ctime") ELSE crtime
  IN IF time = ZeroTime THEN now
     ELSE LET timestamp == FromTimestampYear(time, timezone)
          IN IF timestamp = <<>> THEN now ELSE timestamp[1]

\* Mutant of ResolveYear: the year hint is read on every line.
ResolveYear_EveryLine(year, mediator) ==
  LET y1 == mediator.year
      y2 == IF y1 = 0
            THEN GetYear(mediator.stat, mediator.timezone, mediator.now)
            ELSE y1
  IN IF y1 = 0 /\ y2 = 0 THEN mediator.now ELSE y2

\* The year resolution at the head of _ParseLogLine.  mediator holds what the
\* parser mediator, the file entry and the clock answer: year, stat,
\* timezone, now.
ResolveYear(year, mediator) ==
  LET y1 == IF year = 0 THEN mediator.year ELSE year
      y2 == IF y1 = 0
            THEN GetYear(mediator.stat, mediator.timezone, mediator.now)
            ELSE y1
  IN IF y1 = 0 /\ y2 = 0 THEN mediator.now ELSE y2

\* _GetTimestamp(day, month, year, time): 0 when FromTimeParts fails.
GetTimestamp(day, month, year, time) ==
  LET timestamp == FromTimeParts(year, month, day, time[1], time[2], time[3])
  IN IF timestamp = <<>> THEN 0 ELSE timestamp[1]

\* What the year resolution reads (<<>>: not read, <<v>>: read, with value v).
YearSourcesRead(year, mediator) ==
  LET y1     == IF year = 0 THEN mediator.year ELSE year
      crtime == GetAttrTime(mediator.stat, "crtime")
      time   == IF crtime = ZeroTime
                THEN GetAttrTime(mediator.stat, "ctime") ELSE crtime
      byStat == IF time = ZeroTime THEN <<>>
                ELSE FromTimestampYear(time, mediator.timezone)
  IN [year     |-> IF year = 0 THEN <<mediator.year>> ELSE <<>>,
      stat     |-> IF y1 = 0 THEN <<mediator.stat>> ELSE <<>>,
      timezone |-> IF y1 = 0 THEN <<mediator.timezone>> ELSE <<>>,
      clock    |-> IF y1 = 0 /\ (byStat = <<>> \/ byStat[1] = 0)
                   THEN <<mediator.now>> ELSE <<>>]

NothingRead == [year |-> <<>>, stat |-> <<>>, timezone |-> <<>>, clock |-> <<>>]

-----------------------------------------------------------------------------
(* Events and the line handler.                                            *)

\* Attribute of a pyparsing.ParseResults: a name it does not hold gives ''.
Attr(results, name) == IF name \in DOMAIN results THEN results[name] ELSE <<>>

\* Mutant of MacAppFirewallLogEvent: agent and computer_name change places.
MacAppFirewallLogEvent_Swapped(timestamp, results, process_name, action) ==
  [timestamp     |-> timestamp,
   action        |-> action,
   agent         |-> Attr(results, "computer_name"),
   computer_name |-> Attr(results, "agent"),
   process_name  |-> process_name,
   status        |-> Attr(results, "status")]

\* MacAppFirewallLogEvent(timestamp, structure, process_name, action)
MacAppFirewallLogEvent(timestamp, results, process_name, action) ==
  [timestamp     |-> timestamp,
   action        |-> action,
   agent         |-> Attr(results, "agent"),
   computer_name |-> Attr(results, "computer_name"),
   process_name  |-> process_name,
   status        |-> Attr(results, "status")]

\* Mutant of YearAfterGap: only a drop of more than half a year counts.
YearAfterGap_LargeDropOnly(year, month, lastMonth) ==
  IF lastMonth - month > 6 THEN year + 1 ELSE year

\* Mutant of YearAfterGap: any change of month moves the year on.
YearAfterGap_AnyChange(year, month, lastMonth) ==
  IF month # lastMonth THEN year + 1 ELSE year

\* The year after the "gap detected between years" step.
YearAfterGap(year, month, lastMonth) ==
  IF month < lastMonth THEN year + 1 ELSE year

\* The code points decoded from position i on with errors='replace': each
\* invalid sequence gives one U+FFFD.
RECURSIVE Utf8ReplaceFrom(_, _)
Utf8ReplaceFrom(s, i) ==
  IF i > Len(s) THEN <<>>
  ELSE LET st == Utf8Step(s, i)
       IN (IF st.cp = <<>> THEN <<65533>> ELSE st.cp)
            \o Utf8ReplaceFrom(s, i + st.n)

\* Mutant of DecodeAction: the fallback decodes with errors='replace'.
DecodeAction_Replace(action) ==
  LET strict == Utf8Decode(action, "strict")
  IN IF strict.raised
     THEN [raised |-> FALSE, text |-> Utf8ReplaceFrom(action, 1)]
     ELSE strict

\* Mutant of DecodeAction: no fallback to the permissive decoding.
DecodeAction_StrictOnly(action) == Utf8Decode(action, "strict")

\* The try/except around structure.action.decode.
DecodeAction(action) ==
  LET strict == Utf8Decode(action, "strict")
  IN IF strict.raised THEN Utf8Decode(action, "ignore") ELSE strict

\* Mutant of ActingStructure: the event is always built from the line itself.
ActingStructure_OwnLine(k, results, previous) == results

\* The structure the event is built from.
ActingStructure(k, results, previous) ==
  IF k = "logline" THEN results ELSE previous

\* Mutant of NextPrevious: every line with a timestamp is stored.
NextPrevious_EveryLine(k, results, previous) == results

\* Mutant of NextPrevious: a 'repeated' line forgets the stored record.
NextPrevious_Forget(k, results, previous) ==
  IF k = "logline" THEN results ELSE NoneValue

\* previous_structure after the shape step.
NextPrevious(k, results, previous) ==
  IF k = "logline" THEN results ELSE previous

\* Mutant of TimestampMissing: a line is never dropped for its timestamp.
TimestampMissing_Never(timestamp) == FALSE

\* The test "if not timestamp" that drops the line.
TimestampMissing(timestamp) == timestamp = 0

\* _ParseLogLine(parser_mediator, structure, key) on the parser state self:
\* the state it leaves, the events it produced and how it ended.
ParseLogLine(self, mediator, results, k) ==
  LET year1     == ResolveYear(self.year_use, mediator)
      month     == MonthDictGet(Lower(results.month))
      lastMonth == IF self.last_month = 0 THEN month ELSE self.last_month
      year2     == YearAfterGap(year1, month, lastMonth)
      timestamp == GetTimestamp(results.day, month, year2, results.time)
      acting    == ActingStructure(k, results, self.previous_structure)
      decoded   == DecodeAction(Attr(acting, "action"))
  IN IF TimestampMissing(timestamp)
     THEN [year_use |-> year2, last_month |-> lastMonth,
           previous_structure |-> self.previous_structure,
           produced |-> <<>>, outcome |-> "returned"]
     ELSE IF acting = NoneValue
     THEN [year_use |-> year2, last_month |-> month,
           previous_structure |->
             NextPrevious(k, results, self.previous_structure),
           produced |-> <<>>, outcome |-> "AttributeError"]
     ELSE IF decoded.raised
     THEN [year_use |-> year2, last_month |-> month,
           previous_structure |->
             NextPrevious(k, results, self.previous_structure),
           produced |-> <<>>, outcome |-> "UnicodeDecodeError"]
     ELSE [year_use |-> year2, last_month |-> month,
           previous_structure |->
             NextPrevious(k, results, self.previous_structure),
           produced |-> <<MacAppFirewallLogEvent(
                            timestamp, acting,
                            Strip(Attr(acting, "process_name")),
                            decoded.text)>>,
           outcome |-> "returned"]

\* Mutant of IsKnownKey: every key is handed to _ParseLogLine.
IsKnownKey_AnyKey(k) == TRUE

\* The key test of ParseRecord.
IsKnownKey(k) == k \in {"logline", "repeated"}

-----------------------------------------------------------------------------
(* The line grammar FIREWALL_LINE (pyparsing) and the format gate.         *)

\* The byte at position i, or -1 past the end of the line.
At(s, i) == IF i \in 1..Len(s) THEN s[i] ELSE 0 - 1

Upper == 65..90
Lowercase == 97..122
Nums == 48..57
Printables == 33..126
White == {9, 10, 13, 32}

\* First position at or after i that holds no byte of the set.
RECURSIVE SpanWhile(_, _, _)
SpanWhile(s, i, set) ==
  IF At(s, i) \in set THEN SpanWhile(s, i + 1, set) ELSE i

\* First position at or after i that holds byte b, or the end of the line.
RECURSIVE SpanUntil(_, _, _)
SpanUntil(s, i, b) ==
  IF i <= Len(s) /\ s[i] # b THEN SpanUntil(s, i + 1, b) ELSE i

\* The whitespace pyparsing skips before an element.
SkipWhite(s, i) == SpanWhile(s, i, White)

\* The number written by the digits at positions a..b.
RECURSIVE IntCast(_, _, _)
IntCast(s, a, b) ==
  IF b < a THEN 0 ELSE IntCast(s, a, b - 1) * 10 + (s[b] - 48)

\* PyparsingConstants.MONTH at position i: the position after it, 0: no match.
MonthEnd(s, i) ==
  IF At(s, i) \in Upper /\ At(s, i + 1) \in Lowercase /\ At(s, i + 2) \in Lowercase
  THEN i + 3 ELSE 0

\* PyparsingConstants.ONE_OR_TWO_DIGITS at position i.
OneOrTwoDigitsEnd(s, i) ==
  LET e == SpanWhile(s, i, Nums)
  IN IF e - i \in {1, 2} THEN e ELSE 0

\* PyparsingConstants.TWO_DIGITS at position i.
TwoDigitsEnd(s, i) ==
  IF At(s, i) \in Nums /\ At(s, i + 1) \in Nums THEN i + 2 ELSE 0

\* FIREWALL_LINE.parseString(line): the named results, or NoneValue for a
\* ParseException.
ParseFirewallLine(s) ==
  LET mo0 == SkipWhite(s, 1)
      mo1 == MonthEnd(s, mo0)
      d0  == SkipWhite(s, mo1)
      d1  == OneOrTwoDigitsEnd(s, d0)
      h0  == SkipWhite(s, d1)
      h1  == TwoDigitsEnd(s, h0)
      c1  == SkipWhite(s, h1)
      mi0 == SkipWhite(s, c1 + 1)
      mi1 == TwoDigitsEnd(s, mi0)
      c2  == SkipWhite(s, mi1)
      se0 == SkipWhite(s, c2 + 1)
      se1 == TwoDigitsEnd(s, se0)
      cn0 == SkipWhite(s, se1)
      cn1 == SpanWhile(s, cn0, Printables)
      ag0 == SkipWhite(s, cn1)
      ag1 == SpanWhile(s, ag0, Printables)
      lt  == SkipWhite(s, ag1)
      st0 == lt + 1
      st1 == SpanUntil(s, st0, 62)
      pn0 == st1 + 2
      pn1 == SpanUntil(s, pn0, 58)
      ac0 == SkipWhite(s, pn1 + 1)
      ac1 == SpanUntil(s, ac0, 10)
  IN IF /\ mo1 # 0
        /\ d1 # 0
        /\ h1 # 0 /\ At(s, c1) = 58
        /\ mi1 # 0 /\ At(s, c2) = 58
        /\ se1 # 0
        /\ cn1 > cn0
        /\ ag1 > ag0
        /\ At(s, lt) = 60
        /\ st1 > st0
        /\ At(s, st1) = 62 /\ At(s, st1 + 1) = 58
        /\ pn1 > pn0
        /\ At(s, pn1) = 58
     THEN [month         |-> SubSeq(s, mo0, mo1 - 1),
           day           |-> IntCast(s, d0, d1 - 1),
           time          |-> <<IntCast(s, h0, h1 - 1), IntCast(s, mi0, mi1 - 1),
                               IntCast(s, se0, se1 - 1)>>,
           computer_name |-> SubSeq(s, cn0, cn1 - 1),
           agent         |-> SubSeq(s, ag0, ag1 - 1),
           status        |-> SubSeq(s, st0, st1 - 1),
           process_name  |-> SubSeq(s, pn0, pn1 - 1),
           action        |-> SubSeq(s, ac0, ac1 - 1)]
     ELSE NoneValue

\* REPEATED_LINE.parseString(line): the named results, or NoneValue for a
\* ParseException.  CharsNotIn skips no whitespace and stops at the first
\* '-'; text after the closing '---' is left unparsed.
ParseRepeatedLine(s) ==
  LET mo0 == SkipWhite(s, 1)
      mo1 == MonthEnd(s, mo0)
      d0  == SkipWhite(s, mo1)
      d1  == OneOrTwoDigitsEnd(s, d0)
      h0  == SkipWhite(s, d1)
      h1  == TwoDigitsEnd(s, h0)
      c1  == SkipWhite(s, h1)
      mi0 == SkipWhite(s, c1 + 1)
      mi1 == TwoDigitsEnd(s, mi0)
      c2  == SkipWhite(s, mi1)
      se0 == SkipWhite(s, c2 + 1)
      se1 == TwoDigitsEnd(s, se0)
      da0 == SkipWhite(s, se1)
      pn0 == da0 + 3
      pn1 == SpanUntil(s, pn0, 45)
  IN IF /\ mo1 # 0
        /\ d1 # 0
        /\ h1 # 0 /\ At(s, c1) = 58
        /\ mi1 # 0 /\ At(s, c2) = 58
        /\ se1 # 0
        /\ At(s, da0) = 45 /\ At(s, da0 + 1) = 45 /\ At(s, da0 + 2) = 45
        /\ pn1 > pn0
        /\ At(s, pn1) = 45 /\ At(s, pn1 + 1) = 45 /\ At(s, pn1 + 2) = 45
     THEN [month        |-> SubSeq(s, mo0, mo1 - 1),
           day          |-> IntCast(s, d0, d1 - 1),
           time         |-> <<IntCast(s, h0, h1 - 1), IntCast(s, mi0, mi1 - 1),
                              IntCast(s, se0, se1 - 1)>>,
           process_name |-> SubSeq(s, pn0, pn1 - 1)]
     ELSE NoneValue

\* Mutant of LINE_STRUCTURES: the repeated-marker grammar comes first.
LINE_STRUCTURES_RepeatedFirst == <<"repeated", "logline">>

\* The keys of the line structures, in the order they are tried.
LINE_STRUCTURES == <<"logline", "repeated">>

\* The grammar registered under key k, applied to a raw line.
ParseWith(k, rawLine) ==
  IF k = "logline" THEN ParseFirewallLine(rawLine)
  ELSE ParseRepeatedLine(rawLine)

\* The host's tokenization of a raw line: the first structure from position
\* i of LINE_STRUCTURES that parses it, or NoneValue when none does.
RECURSIVE TokenizeFrom(_, _)
TokenizeFrom(rawLine, i) ==
  IF i > Len(LINE_STRUCTURES) THEN NoneValue
  ELSE IF ParseWith(LINE_STRUCTURES[i], rawLine) # NoneValue
  THEN [key       |-> LINE_STRUCTURES[i],
        structure |-> ParseWith(LINE_STRUCTURES[i], rawLine)]
  ELSE TokenizeFrom(rawLine, i + 1)

\* Mutant of VerifyStructure: one of the two fields is enough.
VerifyStructure_EitherField(rawLine) ==
  LET parsed == ParseFirewallLine(rawLine)
  IN IF parsed = NoneValue THEN FALSE
     ELSE IF parsed.action # CreatingAction /\ parsed.status # Error THEN FALSE
     ELSE TRUE

\* VerifyStructure(parser_mediator, line)
VerifyStructure(rawLine) ==
  LET parsed == ParseFirewallLine(rawLine)
  IN IF parsed = NoneValue THEN FALSE
     ELSE IF parsed.action # CreatingAction \/ parsed.status # Error THEN FALSE
     ELSE TRUE

-----------------------------------------------------------------------------
(* Inputs.                                                                 *)

Months == {Jan, Nov, Dec}
Days == {1, 31}
Times == {<<0, 0, 0>>, <<22, 18, 29>>}

Payloads ==
  { [computer_name |-> Host1, agent |-> Agent112, status |-> Info,
     process_name |-> SpDropbox, action |-> AllowAction],
    [computer_name |-> Host2, agent |-> Agent87, status |-> Info,
     process_name |-> SpSkypeSp, action |-> BadUtf8Action] }

\* Tokenized full record lines (FIREWALL_LINE).
LogLines ==
  { [month |-> m, day |-> d, time |-> t, computer_name |-> p.computer_name,
     agent |-> p.agent, status |-> p.status, process_name |-> p.process_name,
     action |-> p.action] : m \in Months, d \in Days, t \in Times, p \in Payloads }

\* Tokenized repeated lines (REPEATED_LINE).
RepeatedLines ==
  { [month |-> m, day |-> d, time |-> t, process_name |-> RepeatedText] :
      m \in Months, d \in Days, t \in Times }

Keys == {"logline", "repeated", "syslog"}

StructuresOf(k) ==
  IF k = "logline" THEN LogLines
  ELSE IF k = "repeated" THEN RepeatedLines
  ELSE {s \in LogLines \cup RepeatedLines :
          s.month = Nov /\ s.day = 1 /\ s.time = <<22, 18, 29>>}

\* 2013-12-31 23:30:00 UTC, 1970-01-01 00:30:00 UTC, 10000-01-01 12:00:00 UTC.
Time2013 == [days |-> 16070, secs |-> 84600]
Time1970 == [days |-> 0, secs |-> 1800]
TimeHuge == [days |-> 2932897, secs |-> 43200]

Stats ==
  { [crtime |-> Time2013, ctime |-> Time1970],
    [crtime |-> ZeroTime, ctime |-> Time1970],
    [ctime |-> Time2013],
    [ctime |-> TimeHuge],
    [crtime |-> ZeroTime, ctime |-> ZeroTime],
    [size |-> ZeroTime] }

Timezones == {0 - 3600, 0, 3600}
YearHints == {0, 1970, 2013}
CurrentYears == {2015}

\* What the mediator, the file entry and the clock answer.  With a year hint
\* the file times and the timezone are not read: one value of each is kept.
Mediators ==
  { m \in [year : YearHints, stat : Stats, timezone : Timezones,
           now : CurrentYears] :
      m.year # 0 => (m.stat = [size |-> ZeroTime] /\ m.timezone = 0) }

\* The mediator is read only by the year resolution of an unresolved parser.
MediatorsFor(year) ==
  IF year = 0 THEN Mediators
  ELSE {[year |-> 0, stat |-> [size |-> ZeroTime], timezone |-> 0, now |-> 2015]}

\* Raw lines handed to the format gate.

\* 'Nov  2 04:07:35 Host-1.local socketfilterfw[112] <Error>: Logging:
\*  creating /var/log/appfirewall.log'
InitLine ==
  <<78, 111, 118, 32, 32, 50, 32, 48, 52, 58, 48, 55, 58, 51, 53, 32, 72,
    111, 115, 116, 45, 49, 46, 108, 111, 99, 97, 108, 32, 115, 111, 99,
    107, 101, 116, 102, 105, 108, 116, 101, 114, 102, 119, 91, 49, 49, 50,
    93, 32, 60, 69, 114, 114, 111, 114, 62, 58, 32, 76, 111, 103, 103,
    105, 110, 103, 58, 32, 99, 114, 101, 97, 116, 105, 110, 103, 32, 47,
    118, 97, 114, 47, 108, 111, 103, 47, 97, 112, 112, 102, 105, 114, 101,
    119, 97, 108, 108, 46, 108, 111, 103>>

\* The same line with status Info.
InitLineInfo ==
  <<78, 111, 118, 32, 32, 50, 32, 48, 52, 58, 48, 55, 58, 51, 53, 32, 72,
    111, 115, 116, 45, 49, 46, 108, 111, 99, 97, 108, 32, 115, 111, 99,
    107, 101, 116, 102, 105, 108, 116, 101, 114, 102, 119, 91, 49, 49, 50,
    93, 32, 60, 73, 110, 102, 111, 62, 58, 32, 76, 111, 103, 103, 105,
    110, 103, 58, 32, 99, 114, 101, 97, 116, 105, 110, 103, 32, 47, 118,
    97, 114, 47, 108, 111, 103, 47, 97, 112, 112, 102, 105, 114, 101, 119,
    97, 108, 108, 46, 108, 111, 103>>

\* 'Nov  2 04:07:35 Host-1.local socketfilterfw[112] <Error>: Dropbox:
\*  Allow (in:0 out:2)'
ErrorAllowLine ==
  <<78, 111, 118, 32, 32, 50, 32, 48, 52, 58, 48, 55, 58, 51, 53, 32, 72,
    111, 115, 116, 45, 49, 46, 108, 111, 99, 97, 108, 32, 115, 111, 99,
    107, 101, 116, 102, 105, 108, 116, 101, 114, 102, 119, 91, 49, 49, 50,
    93, 32, 60, 69, 114, 114, 111, 114, 62, 58, 32, 68, 114, 111, 112, 98,
    111, 120, 58, 32, 65, 108, 108, 111, 119, 32, 40, 105, 110, 58, 48,
    32, 111, 117, 116, 58, 50, 41>>

\* 'Nov 29 22:18:29 --- last message repeated 1 time ---'
RepeatedRawLine ==
  <<78, 111, 118, 32, 50, 57, 32, 50, 50, 58, 49, 56, 58, 50, 57, 32, 45,
    45, 45, 32, 108, 97, 115, 116, 32, 109, 101, 115, 115, 97, 103, 101,
    32, 114, 101, 112, 101, 97, 116, 101, 100, 32, 49, 32, 116, 105, 109,
    101, 32, 45, 45, 45>>

\* 'Oct 1 00:00:00 Host-1 socketfilterfw[1] <Error>: creating
\*  /var/log/appfirewall.log'
NoProcessLine ==
  <<79, 99, 116, 32, 49, 32, 48, 48, 58, 48, 48, 58, 48, 48, 32, 72, 111,
    115, 116, 45, 49, 32, 115, 111, 99, 107, 101, 116, 102, 105, 108, 116,
    101, 114, 102, 119, 91, 49, 93, 32, 60, 69, 114, 114, 111, 114, 62,
    58, 32, 99, 114, 101, 97, 116, 105, 110, 103, 32, 47, 118, 97, 114,
    47, 108, 111, 103, 47, 97, 112, 112, 102, 105, 114, 101, 119, 97, 108,
    108, 46, 108, 111, 103>>

RawLines ==
  {InitLine, InitLineInfo, ErrorAllowLine, RepeatedRawLine, NoProcessLine}

\* Raw lines the host reads from the file.

\* 'Nov  2 04:07:35 Host-1.local socketfilterfw[112] <Info>: Dropbox:
\*  Allow (in:0 out:2)'
ExampleLine ==
  <<78, 111, 118, 32, 32, 50, 32, 48, 52, 58, 48, 55, 58, 51, 53, 32, 72,
    111, 115, 116, 45, 49, 46, 108, 111, 99, 97, 108, 32, 115, 111, 99,
    107, 101, 116, 102, 105, 108, 116, 101, 114, 102, 119, 91, 49, 49, 50,
    93, 32, 60, 73, 110, 102, 111, 62, 58, 32, 68, 114, 111, 112, 98, 111,
    120, 58, 32, 65, 108, 108, 111, 119, 32, 40, 105, 110, 58, 48, 32, 111,
    117, 116, 58, 50, 41>>

\* 'Nov 29 22:18:29 --- last <Info>: Dropbox: Allow ---'
BothLine ==
  <<78, 111, 118, 32, 50, 57, 32, 50, 50, 58, 49, 56, 58, 50, 57, 32, 45,
    45, 45, 32, 108, 97, 115, 116, 32, 60, 73, 110, 102, 111, 62, 58, 32,
    68, 114, 111, 112, 98, 111, 120, 58, 32, 65, 108, 108, 111, 119, 32,
    45, 45, 45>>

FileLines == {ExampleLine, RepeatedRawLine, BothLine, NoProcessLine}

-----------------------------------------------------------------------------
(* The state machine.                                                      *)

Init ==
  /\ year_use = 0
  /\ last_month = 0
  /\ previous_structure = NoneValue
  /\ nlines = 0
  /\ aborted = FALSE
  /\ op = "__init__"
  /\ key = ""
  /\ structure = NoneValue
  /\ line = <<>>
  /\ outcome = "returned"
  /\ verified = FALSE
  /\ produced = <<>>
  /\ consulted = NothingRead
  /\ line_month = 0
  /\ last_accepted = NoneValue
  /\ expected_year = 0
  /\ all_valid = TRUE

\* ParseRecord(parser_mediator, key, structure) with a key _ParseLogLine takes.
ParseRecordLine ==
  /\ ~aborted
  /\ nlines < MaxLines
  /\ \E k \in Keys :
       /\ IsKnownKey(k)
       /\ \E s \in StructuresOf(k), m \in MediatorsFor(year_use) :
            \E r \in {ParseLogLine(
                        [year_use |-> year_use, last_month |-> last_month,
                         previous_structure |-> previous_structure],
                        m, s, k)} :
               /\ year_use' = r.year_use
               /\ last_month' = r.last_month
               /\ previous_structure' = r.previous_structure
               /\ produced' = r.produced
               /\ outcome' = r.outcome
               /\ aborted' = (r.outcome # "returned")
               /\ consulted' = YearSourcesRead(year_use, m)
               /\ line_month' = MonthDictGet(Lower(s.month))
               /\ last_accepted' = IF k = "logline" /\ r.produced # <<>>
                                    THEN s ELSE last_accepted
               /\ expected_year' =
                    IF line_month = 0 THEN ResolveYear(year_use, m)
                    ELSE IF MonthDictGet(Lower(s.month)) < line_month
                    THEN expected_year + 1 ELSE expected_year
               /\ all_valid' =
                    (all_valid /\ GetTimestamp(
                       s.day, MonthDictGet(Lower(s.month)), r.year_use,
                       s.time) # 0)
               /\ key' = k
               /\ structure' = s
  /\ nlines' = nlines + 1
  /\ op' = "ParseRecord"
  /\ line' = <<>>
  /\ verified' = FALSE

\* The host reads a raw line, tokenizes it with LINE_STRUCTURES and hands the
\* result to ParseRecord; a line no structure parses is skipped.
ParseLine ==
  /\ ~aborted
  /\ nlines < MaxLines
  /\ \E l \in FileLines :
       \E t \in {TokenizeFrom(l, 1)} :
         /\ line' = l
         /\ IF t = NoneValue
            THEN /\ op' = "SkipLine"
                 /\ key' = ""
                 /\ structure' = NoneValue
                 /\ produced' = <<>>
                 /\ outcome' = "returned"
                 /\ consulted' = NothingRead
                 /\ UNCHANGED <<year_use, last_month, previous_structure,
                                nlines, aborted, line_month, last_accepted,
                                expected_year, all_valid>>
            ELSE /\ IsKnownKey(t.key)
                 /\ \E m \in MediatorsFor(year_use) :
                      \E r \in {ParseLogLine(
                                  [year_use |-> year_use,
                                   last_month |-> last_month,
                                   previous_structure |-> previous_structure],
                                  m, t.structure, t.key)} :
                         /\ year_use' = r.year_use
                         /\ last_month' = r.last_month
                         /\ previous_structure' = r.previous_structure
                         /\ produced' = r.produced
                         /\ outcome' = r.outcome
                         /\ aborted' = (r.outcome # "returned")
                         /\ consulted' = YearSourcesRead(year_use, m)
                         /\ line_month' =
                              MonthDictGet(Lower(t.structure.month))
                         /\ last_accepted' =
                              IF t.key = "logline" /\ r.produced # <<>>
                              THEN t.structure ELSE last_accepted
                         /\ expected_year' =
                              IF line_month = 0
                              THEN ResolveYear(year_use, m)
                              ELSE IF MonthDictGet(Lower(t.structure.month))
                                        < line_month
                              THEN expected_year + 1 ELSE expected_year
                         /\ all_valid' =
                              (all_valid /\ GetTimestamp(
                                 t.structure.day,
                                 MonthDictGet(Lower(t.structure.month)),
                                 r.year_use, t.structure.time) # 0)
                 /\ key' = t.key
                 /\ structure' = t.structure
                 /\ nlines' = nlines + 1
                 /\ op' = "ParseRecord"
  /\ verified' = FALSE

\* ParseRecord with any other key: a warning is logged.
ParseRecordUnknown ==
  /\ ~aborted
  /\ nlines < MaxLines
  /\ \E k \in Keys :
       /\ ~IsKnownKey(k)
       /\ \E s \in StructuresOf(k) :
            /\ key' = k
            /\ structure' = s
  /\ nlines' = nlines + 1
  /\ op' = "ParseRecord"
  /\ produced' = <<>>
  /\ outcome' = "returned"
  /\ consulted' = NothingRead
  /\ line' = <<>>
  /\ verified' = FALSE
  /\ UNCHANGED <<year_use, last_month, previous_structure, aborted,
                 line_month, last_accepted, expected_year, all_valid>>

\* Mutant of VerifyStructureCall: the gate keeps the record it tokenized.
VerifyStructureCall_KeepsRecord ==
  /\ ~aborted
  /\ \E l \in RawLines :
       /\ line' = l
       /\ verified' = VerifyStructure(l)
       /\ previous_structure' = IF ParseFirewallLine(l) = NoneValue
                                THEN previous_structure
                                ELSE ParseFirewallLine(l)
  /\ op' = "VerifyStructure"
  /\ outcome' = "returned"
  /\ produced' = <<>>
  /\ consulted' = NothingRead
  /\ key' = ""
  /\ structure' = NoneValue
  /\ UNCHANGED <<year_use, last_month, nlines, aborted, line_month,
                 last_accepted, expected_year, all_valid>>

\* VerifyStructure(parser_mediator, line)
VerifyStructureCall ==
  /\ ~aborted
  /\ \E l \in RawLines :
       /\ line' = l
       /\ verified' = VerifyStructure(l)
  /\ op' = "VerifyStructure"
  /\ outcome' = "returned"
  /\ produced' = <<>>
  /\ consulted' = NothingRead
  /\ key' = ""
  /\ structure' = NoneValue
  /\ UNCHANGED <<year_use, last_month, previous_structure, nlines, aborted,
                 line_month, last_accepted, expected_year, all_valid>>

Next ==
  ParseRecordLine \/ ParseRecordUnknown \/ ParseLine \/ VerifyStructureCall

Spec == Init /\ [][Next]_vars

-----------------------------------------------------------------------------
(* Vocabulary of the properties.                                           *)

\* The last call was ParseRecord with a line _ParseLogLine processed.
ProcessedLine == op = "ParseRecord" /\ key \in {"logline", "repeated"}

\* The number of a month token of the inputs.
MonthNumber(token) ==
  CASE token = Jan -> 1
    [] token = Nov -> 11
    [] token = Dec -> 12

\* The month, day and time of the tokenized line s form a date in year.
InRange(year, s) ==
  ValidDateTime(year, MonthNumber(s.month), s.day, s.time[1], s.time[2], s.time[3])

\* The instant composed directly from year and the line's month, day, time.
ComposedInstant(year, s) ==
  FromTimeParts(year, MonthNumber(s.month), s.day, s.time[1], s.time[2],
                s.time[3])[1]

\* The line has a valid timestamp: composing it gives a date, and not the
\* value 0 that _GetTimestamp uses for 'no timestamp'.
ValidTimestamp(year, s) == InRange(year, s) /\ ComposedInstant(year, s) # 0

-----------------------------------------------------------------------------
(* Properties.                                                             *)

\* C1 (as claimed): for every processed line after the first one, whatever
\* its shape and whether or not it produces an event, year_use grows by
\* exactly one when the line's month is less than the month of the line
\* processed immediately before it, and is unchanged otherwise.
C1_YearFollowsPreviousLine ==
  [][ (ProcessedLine' /\ line_month # 0) =>
        year_use' = year_use
                    + (IF MonthNumber(structure'.month) < line_month
                       THEN 1 ELSE 0) ]_vars

\* C2 (as claimed): when the timestamp of a processed line cannot be composed,
\* no event is produced, yet last_month is that line's month afterwards and,
\* for a 'logline' line, previous_structure is that line's record.
C2_BookkeepingAfterFailedComposition ==
  (ProcessedLine /\ ~InRange(year_use, structure)) =>
     /\ produced = <<>>
     /\ last_month = MonthNumber(structure.month)
     /\ (key = "logline" => previous_structure = structure)

\* C3 (as claimed): every call of ParseRecord returns normally, having
\* produced one event or none; no exception leaves the parser.
C3_ParseRecordReturnsNormally ==
  op = "ParseRecord" => (outcome = "returned" /\ Len(produced) <= 1)

\* C4 (as claimed): a 'logline' line whose month, day and time are in range
\* produces exactly one event, whose timestamp is the instant composed from
\* year_use (after the rollover step) and the line's month, day and time,
\* whatever the resolved year.
C4_InRangeLogLineYieldsComposedEvent ==
  (ProcessedLine /\ key = "logline" /\ InRange(year_use, structure)) =>
     /\ Len(produced) = 1
     /\ produced[1].timestamp = ComposedInstant(year_use, structure)

\* C5: a 'repeated' line with a valid timestamp that follows an accepted
\* 'logline' line produces exactly one event; computer_name, agent, status,
\* action and process_name are those of the most recent accepted 'logline'
\* line, the timestamp is composed from the repeated line's own month, day
\* and time with the current year_use.
C5_RepeatedLineCarriesAcceptedRecord ==
  (ProcessedLine /\ key = "repeated" /\ last_accepted # NoneValue
     /\ ValidTimestamp(year_use, structure)) =>
     /\ Len(produced) = 1
     /\ produced[1].computer_name = last_accepted.computer_name
     /\ produced[1].agent = last_accepted.agent
     /\ produced[1].status = last_accepted.status
     /\ produced[1].action = Utf8IgnoreFrom(last_accepted.action, 1)
     /\ produced[1].process_name = Strip(last_accepted.process_name)
     /\ produced[1].timestamp = ComposedInstant(year_use, structure)

C5_Witness ==
  /\ ProcessedLine /\ key = "repeated" /\ last_accepted # NoneValue
  /\ ValidTimestamp(year_use, structure)
  /\ structure.month = Nov /\ last_accepted.month = Dec
  /\ Len(produced) = 1
  /\ produced[1].agent = Agent112

\* C6: a 'repeated' line processed when no 'logline' line has been accepted
\* before it produces no event.
C6_RepeatedLineWithoutAcceptedRecord ==
  (ProcessedLine /\ key = "repeated" /\ last_accepted = NoneValue) =>
     produced = <<>>

C6_Witness ==
  /\ ProcessedLine /\ key = "repeated" /\ last_accepted = NoneValue
  /\ ValidTimestamp(year_use, structure)
  /\ produced = <<>>

\* C7: the year is resolved once per file.  The year hint, the file times and
\* the clock are read only while year_use is 0, which is only in the first
\* processed line; after that line year_use is not 0, never becomes 0 again
\* and changes only by the increment of a month rollover.
C7_YearResolvedOnce ==
  [][ /\ (consulted' # NothingRead => (year_use = 0 /\ line_month = 0))
      /\ (ProcessedLine' => year_use' # 0)
      /\ (year_use # 0 =>
            \/ year_use' = year_use
            \/ /\ year_use' = year_use + 1
               /\ ProcessedLine'
               /\ MonthNumber(structure'.month) < last_month) ]_vars

C7_Witness ==
  /\ ProcessedLine /\ nlines = 3
  /\ consulted = NothingRead
  /\ year_use = 1971

\* C8: the year is resolved in the order hint, file times, clock.  A nonzero
\* hint is used as it is; otherwise the year of the creation time, or of the
\* fallback file time when the creation time is missing or zero, in the given
\* timezone; otherwise, and when the conversion fails, the current year.
\* The result is a positive year.
C8_YearResolutionOrder ==
  consulted.year # <<>> =>
     /\ year_use > 0
     /\ consulted.year[1] # 0 =>
          /\ year_use = consulted.year[1]
          /\ consulted.stat = <<>> /\ consulted.clock = <<>>
     /\ consulted.year[1] = 0 =>
          /\ consulted.stat # <<>> /\ consulted.timezone # <<>>
          /\ LET stat == consulted.stat[1]
                 useCr == "crtime" \in DOMAIN stat /\ stat.crtime # ZeroTime
                 useCt == ~useCr /\ "ctime" \in DOMAIN stat
                            /\ stat.ctime # ZeroTime
                 time == IF useCr THEN stat.crtime ELSE stat.ctime
                 converted == FromTimestampYear(time, consulted.timezone[1])
             IN IF (useCr \/ useCt) /\ converted # <<>>
                THEN year_use = converted[1] /\ consulted.clock = <<>>
                ELSE consulted.clock # <<>> /\ year_use = consulted.clock[1]

C8_Witness ==
  /\ consulted.year = <<0>>
  /\ consulted.stat = <<[crtime |-> ZeroTime, ctime |-> Time1970]>>
  /\ consulted.timezone = <<0 - 3600>>
  /\ year_use = 1969

\* C9: VerifyStructure returns true exactly when the line matches
\* FIREWALL_LINE, its action is 'creating /var/log/appfirewall.log' and its
\* status is 'Error'; it returns false for a line that does not match, for
\* another action and for another status, and raises nothing.
C9_VerifyStructureGate ==
  op = "VerifyStructure" =>
     /\ outcome = "returned"
     /\ verified = (/\ ParseFirewallLine(line) # NoneValue
                    /\ ParseFirewallLine(line).action = CreatingAction
                    /\ ParseFirewallLine(line).status = Error)
     /\ (line = InitLine => verified)
     /\ (line \in {InitLineInfo, ErrorAllowLine, RepeatedRawLine, NoProcessLine}
           => ~verified)

C9_Witness == op = "VerifyStructure" /\ line = InitLine /\ verified

\* C10: a line whose action is not valid UTF-8 and whose timestamp is valid
\* still produces exactly one event, and last_month and previous_structure
\* are updated as for any accepted line.
C10_UndecodableActionStillYieldsEvent ==
  (ProcessedLine /\ key = "logline" /\ ~Utf8ValidFrom(structure.action, 1)
     /\ ValidTimestamp(year_use, structure)) =>
     /\ outcome = "returned"
     /\ Len(produced) = 1
     /\ last_month = MonthNumber(structure.month)
     /\ previous_structure = structure

C10_Witness ==
  /\ ProcessedLine /\ key = "logline"
  /\ structure.action = BadUtf8Action
  /\ ValidTimestamp(year_use, structure)
  /\ Len(produced) = 1

\* C11: a record whose key is neither 'logline' nor 'repeated' is skipped:
\* ParseRecord produces no event and leaves year_use, last_month and
\* previous_structure as they were; it does not resolve the year.
C11_UnknownKeySkipped ==
  [][ (op' = "ParseRecord" /\ key' \notin {"logline", "repeated"}) =>
        /\ produced' = <<>>
        /\ outcome' = "returned"
        /\ consulted' = NothingRead
        /\ year_use' = year_use
        /\ last_month' = last_month
        /\ previous_structure' = previous_structure ]_vars

C11_Witness ==
  /\ op = "ParseRecord" /\ key = "syslog"
  /\ nlines = 1 /\ year_use = 0 /\ last_month = 0
  /\ produced = <<>>

\* C17: no event is ever delivered with timestamp 0: a line whose composed
\* timestamp is 0 (invalid date, or the epoch instant itself) is dropped.
C17_NoEventWithZeroTimestamp ==
  /\ \A i \in 1..Len(produced) : produced[i].timestamp # 0
  /\ (ProcessedLine /\ outcome = "returned"
        /\ (~InRange(year_use, structure)
              \/ ComposedInstant(year_use, structure) = 0))
       => produced = <<>>

C17_Witness ==
  /\ ProcessedLine /\ outcome = "returned"
  /\ InRange(year_use, structure)
  /\ ComposedInstant(year_use, structure) = 0
  /\ previous_structure # NoneValue
  /\ produced = <<>>

\* C16: once resolved, the year in use never decreases; one line raises it
\* by at most one, and only in the rollover step: a processed line whose
\* month is lower than the remembered one.  No other operation changes it.
C16_YearMonotone ==
  [][ year_use # 0 =>
        /\ year_use' \in {year_use, year_use + 1}
        /\ year_use' = year_use + 1 =>
             /\ op' = "ParseRecord" /\ key' \in {"logline", "repeated"}
             /\ last_month # 0
             /\ line_month' < last_month ]_vars

C16_Witness ==
  /\ ProcessedLine /\ nlines = 3
  /\ year_use = 2014 /\ line_month = 11 /\ last_month = 11
  /\ produced # <<>>

\* C18: previous_structure is written only by a 'logline' line that passed
\* the timestamp composition; a 'repeated' line, a line without a timestamp
\* and an unknown-key record leave it unchanged, so it is always absent or
\* the record of the most recent 'logline' line that produced an event.
C18_PreviousWrittenOnlyByAcceptedLogline ==
  [][ /\ previous_structure' = last_accepted'
      /\ previous_structure' # previous_structure =>
           /\ op' = "ParseRecord" /\ key' = "logline"
           /\ produced' # <<>>
           /\ previous_structure' = structure'
      /\ (op' = "ParseRecord" /\ (key' # "logline" \/ produced' = <<>>)) =>
           previous_structure' = previous_structure ]_vars

C18_Witness ==
  /\ op = "ParseRecord" /\ key = "logline"
  /\ outcome = "returned" /\ produced = <<>>
  /\ previous_structure # NoneValue
  /\ previous_structure # structure
  /\ nlines = 3

\* C19: a call of VerifyStructure, whatever the line and whatever its
\* result, leaves year_use, last_month and previous_structure unchanged and
\* produces no event, so the lines processed afterwards meet the same state.
C19_VerifyStructureHasNoEffect ==
  [][ op' = "VerifyStructure" =>
        /\ year_use' = year_use
        /\ last_month' = last_month
        /\ previous_structure' = previous_structure
        /\ produced' = <<>>
        /\ consulted' = NothingRead
        /\ aborted' = aborted ]_vars

C19_Witness ==
  /\ op = "VerifyStructure" /\ line = InitLine /\ verified
  /\ nlines = 2 /\ year_use = 2014 /\ last_month = 11
  /\ previous_structure # NoneValue
  /\ previous_structure.action = AllowAction

\* C14, as stated: when the action bytes are not valid UTF-8, the action of
\* the event is the decoding in which each invalid byte sequence is replaced
\* by a replacement marker (U+FFFD) and not removed.
C14_InvalidSequencesReplaced ==
  (ProcessedLine /\ key = "logline" /\ produced # <<>>
     /\ ~Utf8ValidFrom(structure.action, 1)) =>
     produced[1].action = Utf8ReplaceFrom(structure.action, 1)

\* C14, amended: when the action bytes are not valid UTF-8, the action of
\* the event is the decoding in which each invalid byte sequence is left
\* out: the valid parts are kept in order, no marker stands for an invalid
\* sequence, and the text is shorter than the marked one.
C14_InvalidSequencesLeftOut ==
  (ProcessedLine /\ key = "logline" /\ produced # <<>>
     /\ ~Utf8ValidFrom(structure.action, 1)) =>
     /\ produced[1].action = Utf8IgnoreFrom(structure.action, 1)
     /\ \A i \in 1..Len(produced[1].action) : produced[1].action[i] # 65533
     /\ Len(produced[1].action) < Len(Utf8ReplaceFrom(structure.action, 1))
     /\ structure.action = BadUtf8Action =>
          produced[1].action = <<65, 233>>

C14_Witness ==
  /\ ProcessedLine /\ key = "logline" /\ outcome = "returned"
  /\ structure.action = BadUtf8Action
  /\ Utf8ReplaceFrom(structure.action, 1) = <<65, 65533, 233, 65533>>
  /\ produced # <<>>
  /\ produced[1].action = <<65, 233>>

\* C13: the year increment has no cap: after any sequence of lines that
\* all have valid timestamps, year_use is the resolved year plus the number
\* of adjacent line pairs in which the month decreases.
C13_YearCountsEveryDecrease ==
  (all_valid /\ line_month # 0) => year_use = expected_year

C13_Witness ==
  /\ ProcessedLine /\ nlines = 3 /\ all_valid
  /\ line_month = 1
  /\ expected_year = 1972
  /\ year_use = 1972

\* C15, as stated: for every raw line at most one of the two grammars
\* matches; the full-record grammar is tried first, and a line matching
\* neither is rejected.
C15_AtMostOneGrammarMatches ==
  line # <<>> =>
    /\ ~(ParseFirewallLine(line) # NoneValue
           /\ ParseRepeatedLine(line) # NoneValue)
    /\ (op = "ParseRecord" /\ ParseFirewallLine(line) # NoneValue) =>
         key = "logline"
    /\ op = "SkipLine" =>
         (ParseFirewallLine(line) = NoneValue
            /\ ParseRepeatedLine(line) = NoneValue)

\* C15, amended: a raw line may match both grammars; the grammars are tried
\* in the order of LINE_STRUCTURES, so a line the full-record grammar matches
\* is handled as 'logline' whether or not the repeated-marker grammar matches
\* it too, a line only the repeated-marker grammar matches is handled as
\* 'repeated', and a line matching neither is rejected without any effect.
C15_FirstMatchingGrammarDecides ==
  [][ (line' # <<>> /\ op' \in {"ParseRecord", "SkipLine"}) =>
        /\ ParseFirewallLine(line') # NoneValue =>
             /\ op' = "ParseRecord" /\ key' = "logline"
             /\ structure' = ParseFirewallLine(line')
        /\ (ParseFirewallLine(line') = NoneValue
              /\ ParseRepeatedLine(line') # NoneValue) =>
             /\ op' = "ParseRecord" /\ key' = "repeated"
             /\ structure' = ParseRepeatedLine(line')
        /\ (ParseFirewallLine(line') = NoneValue
              /\ ParseRepeatedLine(line') = NoneValue) =>
             /\ op' = "SkipLine"
             /\ produced' = <<>>
             /\ year_use' = year_use
             /\ last_month' = last_month
             /\ previous_structure' = previous_structure ]_vars

C15_Witness ==
  /\ op = "ParseRecord" /\ line = BothLine
  /\ ParseFirewallLine(line) # NoneValue
  /\ ParseRepeatedLine(line) # NoneValue
  /\ Len(ParseRepeatedLine(line).process_name) = 29
  /\ key = "logline"
  /\ produced # <<>>
  /\ produced[1].computer_name = <<45, 45, 45>>
  /\ produced[1].process_name = Strip(SpDropbox)
  /\ structure.process_name = SpDropbox

\* C12: the event produced for an accepted 'logline' line carries that
\* line's own fields: computer_name, agent and status as tokenized,
\* process_name without its leading and trailing whitespace, and the decoded
\* action.  The line 'Nov  2 04:07:35 Host-1.local socketfilterfw[112]
\* <Info>: Dropbox: Allow (in:0 out:2)' with year hint 2013 gives an event
\* at 2013-11-02 04:07:35 with agent 'socketfilterfw[112]', status 'Info',
\* process_name 'Dropbox' and action 'Allow (in:0 out:2)'.
C12_LoglineEventCarriesOwnFields ==
  /\ (ProcessedLine /\ key = "logline" /\ produced # <<>>) =>
       /\ Len(produced) = 1
       /\ produced[1].computer_name = structure.computer_name
       /\ produced[1].agent = structure.agent
       /\ produced[1].status = structure.status
       /\ produced[1].timestamp = ComposedInstant(year_use, structure)
       /\ LET name == produced[1].process_name
              raw  == structure.process_name
          IN /\ \E i \in 1..Len(raw) :
                  /\ name = SubSeq(raw, i, i + Len(name) - 1)
                  /\ \A j \in 1..Len(raw) :
                       (j < i \/ j >= i + Len(name)) => IsSpace(raw[j])
             /\ ~IsSpace(name[1]) /\ ~IsSpace(name[Len(name)])
       /\ Utf8ValidFrom(structure.action, 1) =>
            produced[1].action = Utf8IgnoreFrom(structure.action, 1)
  /\ (op = "ParseRecord" /\ line = ExampleLine /\ consulted.year = <<2013>>) =>
       /\ key = "logline"
       /\ year_use = 2013 /\ line_month = 11
       /\ structure.day = 2 /\ structure.time = <<4, 7, 35>>
       /\ produced =
            << [timestamp     |-> 1383365255,
                action        |-> AllowAction,
                agent         |-> Agent112,
                computer_name |-> Host1,
                process_name  |-> <<68, 114, 111, 112, 98, 111, 120>>,
                status        |-> Info] >>

C12_Witness ==
  /\ op = "ParseRecord" /\ line = ExampleLine /\ consulted.year = <<2013>>
  /\ key = "logline" /\ outcome = "returned"
  /\ structure.process_name = SpDropbox
  /\ Len(produced) = 1
  /\ produced[1].timestamp = 1383365255
  /\ produced[1].agent # produced[1].computer_name

=============================================================================
